---------------------------- MODULE Spec2Model ----------------------------
(***************************************************************************)
(* zkLogin credential-derivation pipeline of the wallet                    *)
(* (apps/wallet/src/background/accounts/zk/utils.ts).                      *)
(*                                                                         *)
(* The module models the four exported functions, prepareZKLogin, zkLogin, *)
(* fetchSalt and createPartialZKSignature, and the login attempt that      *)
(* sequences them.  Strings are sequences of characters; an optional value *)
(* is the empty tuple (undefined / null / not yet there) or a one-element  *)
(* tuple holding the value.                                                *)
(***************************************************************************)
EXTENDS Integers, Sequences, FiniteSets, TLC

(***************************************************************************)
(* Bounds of the model.                                                    *)
(***************************************************************************)
MaxCurrentEpoch == 1
MaxRandomness == 1
MaxFragLen == 3
MaxSalt == 1
MaxKeyLen == 2
MaxEntropyTail == 2

\* The two login attempts whose steps interleave.
Attempts == {1, 2}

(***************************************************************************)
(* Optional values.                                                        *)
(***************************************************************************)
Absent == <<>>
Some(v) == <<v>>
IsSome(o) == o # <<>>
Val(o) == o[1]

(***************************************************************************)
(* Strings.                                                                *)
(***************************************************************************)
\* Characters of a redirect fragment.  "id_token" stands for that name as
\* one unit, "s" for any character that is none of the others.
FragChars == {"&", "=", "?", "id_token", "s"}

RECURSIVE SeqsUpTo(_, _)
SeqsUpTo(S, n) ==
    IF n = 0 THEN {<<>>}
    ELSE LET shorter == SeqsUpTo(S, n - 1)
         IN  shorter \cup {Append(s, c) : s \in {t \in shorter : Len(t) = n - 1}, c \in S}

\* JavaScript truthiness of an optional string: undefined, null and "" are falsy.
Falsy(o) == ~IsSome(o) \/ Val(o) = <<>>

\* Index of the first occurrence of c in s, 0 when there is none.
RECURSIVE IndexFrom(_, _, _)
IndexFrom(s, c, i) ==
    IF i > Len(s) THEN 0
    ELSE IF s[i] = c THEN i
    ELSE IndexFrom(s, c, i + 1)

IndexOf(s, c) == IndexFrom(s, c, 1)

\* String.prototype.replace(c, ''): the first occurrence of c removed.
ReplaceFirst(s, c) ==
    LET i == IndexOf(s, c)
    IN  IF i = 0 THEN s
        ELSE SubSeq(s, 1, i - 1) \o SubSeq(s, i + 1, Len(s))

\* s split at every occurrence of c.
RECURSIVE Split(_, _)
Split(s, c) ==
    LET i == IndexOf(s, c)
    IN  IF i = 0 THEN <<s>>
        ELSE <<SubSeq(s, 1, i - 1)>> \o Split(SubSeq(s, i + 1, Len(s)), c)

\* Number.prototype.toString / BigInt.prototype.toString, radix 10.
DigitChars == <<"0", "1", "2", "3", "4", "5", "6", "7", "8", "9">>

RECURSIVE DecimalString(_)
DecimalString(n) ==
    IF n < 10 THEN <<DigitChars[n + 1]>>
    ELSE DecimalString(n \div 10) \o <<DigitChars[(n % 10) + 1]>>

DigitValue(c) == CHOOSE d \in 0..9 : DigitChars[d + 1] = c

IsDecimalString(s) ==
    /\ Len(s) > 0
    /\ \A i \in 1..Len(s) : \E d \in 1..10 : DigitChars[d] = s[i]

RECURSIVE DecimalValue(_)
DecimalValue(s) ==
    IF Len(s) = 0 THEN 0
    ELSE 10 * DecimalValue(SubSeq(s, 1, Len(s) - 1)) + DigitValue(s[Len(s)])


(***************************************************************************)
(* Collaborators outside utils.ts.                                         *)
(***************************************************************************)
\* ZkProvider and zkProviderDataMap (./providers): provider -> clientID, url.
Providers == {"google", "twitch"}
zkProviderDataMap ==
    [p \in Providers |-> [clientID |-> <<"client", p>>, url |-> <<"authorize", p>>]]

\* Browser.identity.getRedirectURL(): the extension's fixed redirect URI.
RedirectURL == <<"redirect_uri_of_extension">>

\* generateNonce of @mysten/zklogin: a hash of its three inputs, taken as
\* collision free, so the nonce names the triple it was computed from.
GenerateNonce(publicKey, maxEpoch, randomness) ==
    <<"nonce", publicKey, maxEpoch, randomness>>

\* new Ed25519Keypair(): a freshly generated keypair, given by the raw bytes
\* of its public key; key generation never repeats a key, so the key drawn by
\* attempt a is named after a.
NewKeypair(a) == <<a>>

\* base64url.encode(randomBytes(20)): a fresh random string, named after the
\* invocation that drew it; no session's key, epoch or randomness determines it.
RandomNonce(a) == <<"random20", a>>

(***************************************************************************)
(* prepareZKLogin                                                          *)
(***************************************************************************)
\* toBigIntBE: the big-endian unsigned integer of a byte sequence.
RECURSIVE ToBigIntBE(_)
ToBigIntBE(bytes) ==
    IF Len(bytes) = 0 THEN 0
    ELSE 256 * ToBigIntBE(SubSeq(bytes, 1, Len(bytes) - 1)) + bytes[Len(bytes)]

EpochLookahead == 2

\* Line 17: randomBytes(16), the number of random bytes drawn.
RandomBytesLength == 16

\* Faulty variant: the lookahead is off by one.
PrepareZKLoginOffByOne(currentEpoch, keyPair, random16) ==
    LET maxEpoch == currentEpoch + 1
        randomness == ToBigIntBE(random16)
    IN  [ephemeralKeyPair |-> keyPair,
         randomness |-> randomness,
         nonce |-> GenerateNonce(keyPair, maxEpoch, randomness),
         maxEpoch |-> maxEpoch]

\* Faulty variant: the nonce is computed from a fixed key, not from the fresh one.
PrepareZKLoginStaticKey(currentEpoch, keyPair, random16) ==
    LET maxEpoch == currentEpoch + EpochLookahead
        randomness == ToBigIntBE(random16)
    IN  [ephemeralKeyPair |-> keyPair,
         randomness |-> randomness,
         nonce |-> GenerateNonce(<<0>>, maxEpoch, randomness),
         maxEpoch |-> maxEpoch]

\* Faulty variant: the nonce is computed from currentEpoch, before the
\* lookahead is added.
PrepareZKLoginNonceOfCurrentEpoch(currentEpoch, keyPair, random16) ==
    LET maxEpoch == currentEpoch + EpochLookahead
        randomness == ToBigIntBE(random16)
    IN  [ephemeralKeyPair |-> keyPair,
         randomness |-> randomness,
         nonce |-> GenerateNonce(keyPair, currentEpoch, randomness),
         maxEpoch |-> maxEpoch]

\* Faulty variant: the randomness is seeded with the epoch.
PrepareZKLoginEpochSeeded(currentEpoch, keyPair, random16) ==
    LET maxEpoch == currentEpoch + EpochLookahead
        randomness == ToBigIntBE(random16) + currentEpoch
    IN  [ephemeralKeyPair |-> keyPair,
         randomness |-> randomness,
         nonce |-> GenerateNonce(keyPair, maxEpoch, randomness),
         maxEpoch |-> maxEpoch]

\* Lines 14-25; random16 is what randomBytes(16) returned.
PrepareZKLogin(currentEpoch, keyPair, random16) ==
    LET maxEpoch == currentEpoch + EpochLookahead
        randomness == ToBigIntBE(random16)
    IN  [ephemeralKeyPair |-> keyPair,
         randomness |-> randomness,
         nonce |-> GenerateNonce(keyPair, maxEpoch, randomness),
         maxEpoch |-> maxEpoch]

(***************************************************************************)
(* zkLogin                                                                 *)
(***************************************************************************)
\* Faulty variant: the nonce the caller passed is ignored.
ZkLoginNonceAlwaysFresh(nonceArg, fresh) == fresh

\* Lines 38-40: the nonce the request carries.
ZkLoginNonce(nonceArg, fresh) ==
    IF Falsy(nonceArg) THEN fresh ELSE Val(nonceArg)

\* Faulty variant: login_hint is appended whenever a loginHint is passed, an
\* empty one too.
ZkLoginParamsHintWhenDefined(provider, nonce, loginHint, prompt) ==
    <<  <<"client_id", zkProviderDataMap[provider].clientID>>,
        <<"response_type", <<"id_token">> >>,
        <<"redirect_uri", RedirectURL>>,
        <<"scope", <<"openid email profile">> >>,
        <<"nonce", nonce>> >>
    \o (IF IsSome(loginHint) THEN << <<"login_hint", Val(loginHint)>> >> ELSE <<>>)
    \o (IF IsSome(prompt) THEN << <<"prompt", Val(prompt)>> >> ELSE <<>>)

\* Lines 41-55: the query parameters, in the order they are appended.
ZkLoginParams(provider, nonce, loginHint, prompt) ==
    <<  <<"client_id", zkProviderDataMap[provider].clientID>>,
        <<"response_type", <<"id_token">> >>,
        <<"redirect_uri", RedirectURL>>,
        <<"scope", <<"openid email profile">> >>,
        <<"nonce", nonce>> >>
    \o (IF Falsy(loginHint) THEN <<>> ELSE << <<"login_hint", Val(loginHint)>> >>)
    \o (IF IsSome(prompt) THEN << <<"prompt", Val(prompt)>> >> ELSE <<>>)

\* Line 56: the authorization URL.
AuthUrl(provider, params) ==
    [url |-> zkProviderDataMap[provider].url, params |-> params]

\* URL.hash of the redirect URL: "" for an empty fragment, else "#" + fragment.
UrlHash(fragment) ==
    IF fragment = <<>> THEN <<>> ELSE <<"#">> \o fragment

\* One name=value piece of a query string: split at its first "=".
ParsePair(piece) ==
    LET i == IndexOf(piece, "=")
    IN  IF i = 0 THEN <<piece, <<>> >>
        ELSE <<SubSeq(piece, 1, i - 1), SubSeq(piece, i + 1, Len(piece))>>

\* new URLSearchParams(init): a leading "?" is dropped, the rest is split at
\* "&", empty pieces are skipped.
URLSearchParams(init) ==
    LET body == IF Len(init) > 0 /\ init[1] = "?" THEN Tail(init) ELSE init
        pieces == Split(body, "&")
        kept == SelectSeq(pieces, LAMBDA p : p # <<>>)
    IN  [i \in 1..Len(kept) |-> ParsePair(kept[i])]

\* URLSearchParams.get(name): the value of the first pair named name, or null.
SearchParamsGet(params, name) ==
    LET hits == SelectSeq(params, LAMBDA p : p[1] = name)
    IN  IF hits = <<>> THEN Absent ELSE Some(hits[1][2])

\* Lines 63-64: the id_token of the redirect URL's fragment.
ExtractJwt(hash) ==
    SearchParamsGet(URLSearchParams(ReplaceFirst(hash, "#")), <<"id_token">>)

\* Faulty variant: only a missing id_token throws (jwt === null); an empty one is returned.
ZkLoginResultNullOnly(jwtOpt) ==
    IF ~IsSome(jwtOpt)
    THEN [kind |-> "throw", error |-> "JWT is missing", value |-> Absent]
    ELSE [kind |-> "return", error |-> "none", value |-> jwtOpt]

\* Lines 65-68: throw when the token is missing, else return it.
ZkLoginResult(jwtOpt) ==
    IF Falsy(jwtOpt)
    THEN [kind |-> "throw", error |-> "JWT is missing", value |-> Absent]
    ELSE [kind |-> "return", error |-> "none", value |-> jwtOpt]

(***************************************************************************)
(* fetchSalt                                                               *)
(***************************************************************************)
\* What a fetch settles with: the response and its body, or a rejection.
Responded(body) == [kind |-> "response", error |-> "none", body |-> body]
Rejected(e, body) == [kind |-> "reject", error |-> e, body |-> body]

\* Failures of the transport (fetch rejects); the transport's own time-out is
\* one of them.
TransportErrors == {"NetworkError", "TimeoutError"}

\* Lines 75-81: the request to the salt registry.
FetchSaltRequest(jwt) ==
    [url |-> "salt.api-devnet/get_salt", method |-> "POST", body |-> [token |-> jwt]]

\* Lines 75-82: what fetchSalt settles with, given what the fetch settled with.
\* The salt field is returned as it is, undefined (Absent) when it is missing.
FetchSaltResult(settled) ==
    IF settled.kind = "reject"
    THEN [kind |-> "throw", error |-> settled.error, value |-> Absent]
    ELSE IF ~settled.body.json
    THEN [kind |-> "throw", error |-> "SyntaxError", value |-> Absent]
    ELSE [kind |-> "return", error |-> "none", value |-> settled.body.salt]

\* Bodies of the salt registry's responses: not JSON, or an object whose salt
\* is missing, malformed, or a decimal integer string.
SaltFields ==
    {Absent, Some(<<"x">>)} \cup {Some(DecimalString(n)) : n \in 0..MaxSalt}
SaltBodies ==
    {[json |-> FALSE, salt |-> Absent]} \cup {[json |-> TRUE, salt |-> f] : f \in SaltFields}

(***************************************************************************)
(* createPartialZKSignature                                                *)
(***************************************************************************)
\* PublicKey.toSuiBytes(): the signature-scheme flag (0x00 for Ed25519)
\* followed by the raw key bytes.
ToSuiBytes(publicKey) == <<0>> \o publicKey

\* Lines 85-92: WalletInputs; userSalt is a required bigint.
WalletInputs(jwt, ephemeralPublicKey, maxEpoch, jwtRandomness, userSalt, keyClaimName) ==
    /\ maxEpoch \in Nat
    /\ jwtRandomness \in Nat
    /\ IsSome(userSalt) /\ Val(userSalt) \in Nat
    /\ keyClaimName \in {Absent, Some("sub"), Some("email")}

\* toBigIntLE: the little-endian unsigned integer of a byte sequence.
RECURSIVE ToBigIntLE(_)
ToBigIntLE(bytes) ==
    IF Len(bytes) = 0 THEN 0
    ELSE bytes[1] + 256 * ToBigIntLE(SubSeq(bytes, 2, Len(bytes)))

\* Faulty variant: the key bytes are read little-endian.
ProofRequestBodyLittleEndian(jwt, ephemeralPublicKey, maxEpoch, jwtRandomness, userSalt, keyClaimName) ==
    [jwt |-> jwt,
     eph_public_key |-> DecimalString(ToBigIntLE(ToSuiBytes(ephemeralPublicKey))),
     max_epoch |-> maxEpoch,
     jwt_randomness |-> DecimalString(jwtRandomness),
     subject_pin |-> DecimalString(Val(userSalt)),
     key_claim_name |-> IF IsSome(keyClaimName) THEN Val(keyClaimName) ELSE "sub"]

\* Faulty variant: the randomness and the salt change places.
ProofRequestBodySwapped(jwt, ephemeralPublicKey, maxEpoch, jwtRandomness, userSalt, keyClaimName) ==
    [jwt |-> jwt,
     eph_public_key |-> DecimalString(ToBigIntBE(ToSuiBytes(ephemeralPublicKey))),
     max_epoch |-> maxEpoch,
     jwt_randomness |-> DecimalString(Val(userSalt)),
     subject_pin |-> DecimalString(jwtRandomness),
     key_claim_name |-> IF IsSome(keyClaimName) THEN Val(keyClaimName) ELSE "sub"]

\* Faulty variant: subject_pin does not come from userSalt.
ProofRequestBodyFixedPin(jwt, ephemeralPublicKey, maxEpoch, jwtRandomness, userSalt, keyClaimName) ==
    [jwt |-> jwt,
     eph_public_key |-> DecimalString(ToBigIntBE(ToSuiBytes(ephemeralPublicKey))),
     max_epoch |-> maxEpoch,
     jwt_randomness |-> DecimalString(jwtRandomness),
     subject_pin |-> <<"0">>,
     key_claim_name |-> IF IsSome(keyClaimName) THEN Val(keyClaimName) ELSE "sub"]

\* Lines 126-133: the body of the request to the proof service.
ProofRequestBody(jwt, ephemeralPublicKey, maxEpoch, jwtRandomness, userSalt, keyClaimName) ==
    [jwt |-> jwt,
     eph_public_key |-> DecimalString(ToBigIntBE(ToSuiBytes(ephemeralPublicKey))),
     max_epoch |-> maxEpoch,
     jwt_randomness |-> DecimalString(jwtRandomness),
     subject_pin |-> DecimalString(Val(userSalt)),
     key_claim_name |-> IF IsSome(keyClaimName) THEN Val(keyClaimName) ELSE "sub"]

\* Lines 103-108: the fields of a PartialZkSignature.
PartialZkSignatureFields == {"proof_points", "address_seed", "claims", "header_base64"}

\* Faulty variant: a rejected fetch is swallowed and an empty object is returned.
CreatePartialZKSignatureResultSwallowing(settled) ==
    IF settled.kind = "reject"
    THEN [kind |-> "return", error |-> "none",
          value |-> Some([fields |-> {}, address_seed |-> Absent])]
    ELSE IF ~settled.body.json
    THEN [kind |-> "throw", error |-> "SyntaxError", value |-> Absent]
    ELSE [kind |-> "return", error |-> "none",
          value |-> Some([fields |-> settled.body.fields,
                          address_seed |-> settled.body.address_seed])]

\* Lines 121-135: what createPartialZKSignature settles with.  The parsed
\* body is returned as it is.
CreatePartialZKSignatureResult(settled) ==
    IF settled.kind = "reject"
    THEN [kind |-> "throw", error |-> settled.error, value |-> Absent]
    ELSE IF ~settled.body.json
    THEN [kind |-> "throw", error |-> "SyntaxError", value |-> Absent]
    ELSE [kind |-> "return", error |-> "none",
          value |-> Some([fields |-> settled.body.fields,
                          address_seed |-> settled.body.address_seed])]

\* The address seed the proof service derives: a function of the token's
\* claims, of the claim key name and of the salt, and of nothing else.
AddressSeedOf(request) ==
    <<"address_seed", request.jwt, request.key_claim_name, request.subject_pin>>

\* Bodies of the proof service's responses to a request: not JSON, or an
\* object with all the fields of a PartialZkSignature or all but one.
ProofBodies(request) ==
    {[json |-> FALSE, fields |-> {}, address_seed |-> Absent]}
    \cup {[json |-> TRUE, fields |-> F,
           address_seed |-> IF "address_seed" \in F
                            THEN Some(AddressSeedOf(request)) ELSE Absent] :
            F \in {G \in SUBSET PartialZkSignatureFields :
                     Cardinality(G) >= Cardinality(PartialZkSignatureFields) - 1}}

(***************************************************************************)
(* The login attempt (LoginSession orchestration).                         *)
(***************************************************************************)
\* BigInt(salt): the salt string as the bigint createPartialZKSignature takes;
\* Absent when the conversion throws (undefined, or not an integer string).
UserSaltOf(saltValue) ==
    IF IsSome(saltValue) /\ IsDecimalString(Val(saltValue))
    THEN Some(DecimalValue(Val(saltValue)))
    ELSE Absent


(***************************************************************************)
(* State.                                                                  *)
(***************************************************************************)
VARIABLES
    pc,         \* where each attempt stands
    epoch,      \* the currentEpoch the attempt passed to prepareZKLogin
    entropy,    \* the bytes randomBytes(16) returned to prepareZKLogin
    claimArg,   \* the keyClaimName the attempt passed to createPartialZKSignature
    session,    \* the session prepareZKLogin returned to the attempt
    call,       \* the zkLogin invocation of the attempt: arguments, authUrl, redirect
    jwt,        \* the token zkLogin returned
    salt,       \* the value fetchSalt returned
    proof,      \* the value createPartialZKSignature returned
    err,        \* the error the attempt ended with
    authSent,   \* authorization requests handed to launchWebAuthFlow, in order
    saltSent,   \* requests sent to the salt registry, in order
    proofSent,  \* requests sent to the proof service, in order
    saltNet,    \* how the exchange with the salt registry ended
    proofNet    \* how the exchange with the proof service ended

vars ==
    <<pc, epoch, entropy, claimArg, session, call, jwt, salt, proof, err,
      authSent, saltSent, proofSent, saltNet, proofNet>>

Init ==
    /\ pc = [a \in Attempts |-> "Idle"]
    /\ epoch = [a \in Attempts |-> Absent]
    /\ entropy = [a \in Attempts |-> Absent]
    /\ claimArg = [a \in Attempts |-> Absent]
    /\ session = [a \in Attempts |-> Absent]
    /\ call = [a \in Attempts |-> Absent]
    /\ jwt = [a \in Attempts |-> Absent]
    /\ salt = [a \in Attempts |-> Absent]
    /\ proof = [a \in Attempts |-> Absent]
    /\ err = [a \in Attempts |-> "none"]
    /\ authSent = [a \in Attempts |-> <<>>]
    /\ saltSent = [a \in Attempts |-> <<>>]
    /\ proofSent = [a \in Attempts |-> <<>>]
    /\ saltNet = [a \in Attempts |-> "none"]
    /\ proofNet = [a \in Attempts |-> "none"]

(***************************************************************************)
(* Inputs.                                                                 *)
(***************************************************************************)
CurrentEpochs == 0..MaxCurrentEpoch
Randomness == 0..MaxRandomness

\* Outcomes of randomBytes(16), named by their last bytes; the bytes before
\* them are zero.
Zeros(n) == [i \in 1..n |-> 0]
RandomBytes(tail) == Zeros(RandomBytesLength - Len(tail)) \o tail
\* The outcomes whose integer is in Randomness.
PipelineEntropy == {RandomBytes(<<n>>) : n \in Randomness}

\* Byte values, the raw bytes of public keys, tokens, and the outcomes of
\* randomBytes(16) with MaxEntropyTail bytes after the zero bytes.
ByteSamples == {0, 1, 255}
KeySamples == SeqsUpTo(ByteSamples, MaxKeyLen) \ {<<>>}
Tokens == {<<"s">>, <<"s", "?">>}
WideEntropy ==
    {RandomBytes(t) : t \in {u \in SeqsUpTo(ByteSamples, MaxEntropyTail) :
                               Len(u) = MaxEntropyTail}}

\* nonce?: omitted, "", or the nonce of the attempt's session.
NonceArgs(a) ==
    {Absent, Some(<<>>)}
    \cup (IF IsSome(session[a]) THEN {Some(Val(session[a]).nonce)} ELSE {})
\* loginHint?: omitted, "", or an account.
LoginHints == {Absent, Some(<<>>), Some(<<"user@example.com">>)}
\* prompt?: omitted, 'select_account' or 'consent'.
Prompts == {Absent, Some(<<"select_account">>), Some(<<"consent">>)}
\* keyClaimName?: omitted, 'sub' or 'email'.
KeyClaimNames == {Absent, Some("sub"), Some("email")}
\* The pipeline's scenarios: the claim key name omitted, or 'email'.
PipelineKeyClaimNames == {Absent, Some("email")}

\* Every redirect fragment of at most MaxFragLen characters.
Fragments == SeqsUpTo(FragChars, MaxFragLen)

\* The redirects of the pipeline's scenarios: no fragment, state=abc, an
\* empty id_token, and an id_token.
ScenarioFragments ==
    { <<>>,
      <<"s", "=", "s">>,
      <<"id_token", "=">>,
      <<"s", "=", "s", "&", "id_token", "=", "s">> }

(***************************************************************************)
(* Sequencing of a login attempt (4.6): a session once, then the identity  *)
(* flow once, then the salt, then the proof.                               *)
(***************************************************************************)
MayPrepare(a) == pc[a] = "Idle"
MayLogin(a) == pc[a] = "Prepared"
MayResolveSalt(a) == pc[a] = "Success"
\* The proof call waits for nothing but its inputs: it may be made as soon as
\* the token is there, while the salt call is in flight or after it.
MayAssembleProof(a) == pc[a] \in {"SaltRequested", "SaltReturned"}

\* The salt the attempt holds: undefined until fetchSalt has returned.
SaltHeld(a) == IF IsSome(salt[a]) THEN Val(salt[a]) ELSE Absent

(***************************************************************************)
(* Actions.                                                                *)
(***************************************************************************)
\* Faulty variant: the session is kept in one module-level slot that every
\* attempt reads.
PrepareSharedSession(a, currentEpoch, random16) ==
    /\ MayPrepare(a)
    /\ session' = [b \in Attempts |->
                     Some(PrepareZKLogin(currentEpoch, NewKeypair(a), random16))]
    /\ epoch' = [epoch EXCEPT ![a] = Some(currentEpoch)]
    /\ entropy' = [entropy EXCEPT ![a] = Some(random16)]
    /\ pc' = [pc EXCEPT ![a] = "Prepared"]
    /\ UNCHANGED <<claimArg, call, jwt, salt, proof, err,
                   authSent, saltSent, proofSent, saltNet, proofNet>>

\* prepareZKLogin(currentEpoch), lines 14-25.
Prepare(a, currentEpoch, random16) ==
    /\ MayPrepare(a)
    /\ session' = [session EXCEPT ![a] =
                     Some(PrepareZKLogin(currentEpoch, NewKeypair(a), random16))]
    /\ epoch' = [epoch EXCEPT ![a] = Some(currentEpoch)]
    /\ entropy' = [entropy EXCEPT ![a] = Some(random16)]
    /\ pc' = [pc EXCEPT ![a] = "Prepared"]
    /\ UNCHANGED <<claimArg, call, jwt, salt, proof, err,
                   authSent, saltSent, proofSent, saltNet, proofNet>>

\* Faulty variant: the flow is launched twice with the authorization URL.
ZkLoginCallRelaunching(a, provider, nonceArg, loginHint, prompt) ==
    /\ MayLogin(a)
    /\ LET nonce == ZkLoginNonce(nonceArg, RandomNonce(a))
           authUrl == AuthUrl(provider, ZkLoginParams(provider, nonce, loginHint, prompt))
       IN  /\ call' = [call EXCEPT ![a] =
                         Some([provider |-> provider,
                               nonce |-> nonceArg,
                               loginHint |-> loginHint,
                               prompt |-> prompt,
                               authUrl |-> authUrl,
                               launches |-> 2,
                               settled |-> "pending",
                               fragment |-> <<>>])]
           /\ authSent' = [authSent EXCEPT ![a] = Append(Append(@, authUrl), authUrl)]
    /\ pc' = [pc EXCEPT ![a] = "AuthorizationRequested"]
    /\ UNCHANGED <<epoch, entropy, claimArg, session, jwt, salt, proof, err,
                   saltSent, proofSent, saltNet, proofNet>>

\* zkLogin up to its await, lines 27-62: the authorization URL is built and
\* handed to launchWebAuthFlow.
ZkLoginCall(a, provider, nonceArg, loginHint, prompt) ==
    /\ MayLogin(a)
    /\ LET nonce == ZkLoginNonce(nonceArg, RandomNonce(a))
           authUrl == AuthUrl(provider, ZkLoginParams(provider, nonce, loginHint, prompt))
       IN  /\ call' = [call EXCEPT ![a] =
                         Some([provider |-> provider,
                               nonce |-> nonceArg,
                               loginHint |-> loginHint,
                               prompt |-> prompt,
                               authUrl |-> authUrl,
                               launches |-> 1,
                               settled |-> "pending",
                               fragment |-> <<>>])]
           /\ authSent' = [authSent EXCEPT ![a] = Append(@, authUrl)]
    /\ pc' = [pc EXCEPT ![a] = "AuthorizationRequested"]
    /\ UNCHANGED <<epoch, entropy, claimArg, session, jwt, salt, proof, err,
                   saltSent, proofSent, saltNet, proofNet>>

\* launchWebAuthFlow resolves with the redirect URL; lines 57-68 run: the
\* fragment is parsed, the token is returned or 'JWT is missing' is thrown.
WebAuthFlowRedirect(a, fragment) ==
    /\ pc[a] = "AuthorizationRequested"
    /\ LET res == ZkLoginResult(ExtractJwt(UrlHash(fragment)))
       IN  /\ call' = [call EXCEPT ![a] =
                         Some([Val(@) EXCEPT !.settled = "redirect",
                                             !.fragment = fragment])]
           /\ pc' = [pc EXCEPT ![a] = IF res.kind = "return" THEN "Success" ELSE "Failed"]
           /\ jwt' = [jwt EXCEPT ![a] = res.value]
           /\ err' = [err EXCEPT ![a] = res.error]
    /\ UNCHANGED <<epoch, entropy, claimArg, session, salt, proof,
                   authSent, saltSent, proofSent, saltNet, proofNet>>

\* Faulty variant: the rejection of launchWebAuthFlow is caught and an empty token is
\* returned.
WebAuthFlowAbortSwallowed(a) ==
    /\ pc[a] = "AuthorizationRequested"
    /\ call' = [call EXCEPT ![a] = Some([Val(@) EXCEPT !.settled = "aborted"])]
    /\ pc' = [pc EXCEPT ![a] = "Success"]
    /\ jwt' = [jwt EXCEPT ![a] = Some(<<>>)]
    /\ UNCHANGED <<epoch, entropy, claimArg, session, salt, proof, err,
                   authSent, saltSent, proofSent, saltNet, proofNet>>

\* The user closes the interactive surface: launchWebAuthFlow rejects and the
\* await at line 58 throws out of zkLogin.
WebAuthFlowAbort(a) ==
    /\ pc[a] = "AuthorizationRequested"
    /\ call' = [call EXCEPT ![a] = Some([Val(@) EXCEPT !.settled = "aborted"])]
    /\ pc' = [pc EXCEPT ![a] = "Failed"]
    /\ err' = [err EXCEPT ![a] = "UserAborted"]
    /\ UNCHANGED <<epoch, entropy, claimArg, session, jwt, salt, proof,
                   authSent, saltSent, proofSent, saltNet, proofNet>>

\* fetchSalt(jwt) up to its await, lines 74-81.
FetchSaltCall(a) ==
    /\ MayResolveSalt(a)
    /\ saltSent' = [saltSent EXCEPT ![a] = Append(@, FetchSaltRequest(Val(jwt[a])))]
    /\ call' = [call EXCEPT ![a] = Absent]
    /\ pc' = [pc EXCEPT ![a] = "SaltRequested"]
    /\ UNCHANGED <<epoch, entropy, claimArg, session, jwt, salt, proof, err,
                   authSent, proofSent, saltNet, proofNet>>

\* Faulty variant: a rejected fetch is sent once more before fetchSalt gives up.
SaltSettlesRetrying(a, settled) ==
    /\ pc[a] = "SaltRequested"
    /\ IF settled.kind = "reject" /\ Len(saltSent[a]) < 2
       THEN /\ saltSent' = [saltSent EXCEPT ![a] = Append(@, @[1])]
            /\ UNCHANGED <<pc, salt, err, saltNet>>
       ELSE /\ LET res == FetchSaltResult(settled)
               IN  /\ pc' = [pc EXCEPT ![a] =
                               IF res.kind = "return" THEN "SaltReturned" ELSE "AttemptFailed"]
                   /\ salt' = [salt EXCEPT ![a] =
                                 IF res.kind = "return" THEN Some(res.value) ELSE Absent]
                   /\ err' = [err EXCEPT ![a] = res.error]
            /\ saltNet' = [saltNet EXCEPT ![a] =
                             IF settled.kind = "reject" THEN settled.error ELSE "ok"]
            /\ UNCHANGED saltSent
    /\ UNCHANGED <<epoch, entropy, claimArg, session, call, jwt, proof,
                   authSent, proofSent, proofNet>>

\* The fetch of fetchSalt settles; line 82 runs.
SaltSettles(a, settled) ==
    /\ pc[a] = "SaltRequested"
    /\ LET res == FetchSaltResult(settled)
       IN  /\ pc' = [pc EXCEPT ![a] =
                       IF res.kind = "return" THEN "SaltReturned" ELSE "AttemptFailed"]
           /\ salt' = [salt EXCEPT ![a] =
                         IF res.kind = "return" THEN Some(res.value) ELSE Absent]
           /\ err' = [err EXCEPT ![a] = res.error]
    /\ saltNet' = [saltNet EXCEPT ![a] =
                     IF settled.kind = "reject" THEN settled.error ELSE "ok"]
    /\ UNCHANGED <<epoch, entropy, claimArg, session, call, jwt, proof,
                   authSent, saltSent, proofSent, proofNet>>

\* The salt fetchSalt returned is no integer string: its conversion to the
\* bigint userSalt throws and the attempt ends.
SaltConversionThrows(a) ==
    /\ pc[a] = "SaltReturned"
    /\ ~IsSome(UserSaltOf(SaltHeld(a)))
    /\ pc' = [pc EXCEPT ![a] = "AttemptFailed"]
    /\ err' = [err EXCEPT ![a] = "SaltNotAnInteger"]
    /\ UNCHANGED <<epoch, entropy, claimArg, session, call, jwt, salt, proof,
                   authSent, saltSent, proofSent, saltNet, proofNet>>

\* Faulty variant: the request carries a number that counts the requests the
\* module has sent so far.
CreatePartialZKSignatureCallStamped(a, keyClaimName) ==
    /\ MayAssembleProof(a)
    /\ LET s == Val(session[a])
           userSalt == UserSaltOf(SaltHeld(a))
           sentSoFar == Cardinality({b \in Attempts : proofSent[b] # <<>>})
       IN  /\ WalletInputs(Val(jwt[a]), s.ephemeralKeyPair, s.maxEpoch,
                           s.randomness, userSalt, keyClaimName)
           /\ proofSent' = [proofSent EXCEPT ![a] =
                              Append(@, ProofRequestBody(Val(jwt[a]), s.ephemeralKeyPair,
                                                         s.maxEpoch, s.randomness,
                                                         userSalt, keyClaimName)
                                        @@ [request_id |-> sentSoFar])]
    /\ claimArg' = [claimArg EXCEPT ![a] = keyClaimName]
    /\ pc' = [pc EXCEPT ![a] = "ProofRequested"]
    /\ UNCHANGED <<epoch, entropy, session, call, jwt, salt, proof, err,
                   authSent, saltSent, saltNet, proofNet>>

\* createPartialZKSignature(inputs) up to its await, lines 113-134.
CreatePartialZKSignatureCall(a, keyClaimName) ==
    /\ MayAssembleProof(a)
    /\ LET s == Val(session[a])
           userSalt == UserSaltOf(SaltHeld(a))
       IN  /\ WalletInputs(Val(jwt[a]), s.ephemeralKeyPair, s.maxEpoch,
                           s.randomness, userSalt, keyClaimName)
           /\ proofSent' = [proofSent EXCEPT ![a] =
                              Append(@, ProofRequestBody(Val(jwt[a]), s.ephemeralKeyPair,
                                                         s.maxEpoch, s.randomness,
                                                         userSalt, keyClaimName))]
    /\ claimArg' = [claimArg EXCEPT ![a] = keyClaimName]
    /\ pc' = [pc EXCEPT ![a] = "ProofRequested"]
    /\ UNCHANGED <<epoch, entropy, session, call, jwt, salt, proof, err,
                   authSent, saltSent, saltNet, proofNet>>

\* The fetch of createPartialZKSignature settles; line 135 runs.
ProofSettles(a, settled) ==
    /\ pc[a] = "ProofRequested"
    /\ LET res == CreatePartialZKSignatureResult(settled)
       IN  /\ pc' = [pc EXCEPT ![a] =
                       IF res.kind = "return" THEN "Completed" ELSE "AttemptFailed"]
           /\ proof' = [proof EXCEPT ![a] = res.value]
           /\ err' = [err EXCEPT ![a] = res.error]
    /\ proofNet' = [proofNet EXCEPT ![a] =
                      IF settled.kind = "reject" THEN settled.error ELSE "ok"]
    /\ UNCHANGED <<epoch, entropy, claimArg, session, call, jwt, salt,
                   authSent, saltSent, proofSent, saltNet>>

\* What the two fetches can settle with.
SaltSettlements ==
    {Responded(b) : b \in SaltBodies}
    \cup {Rejected(e, [json |-> FALSE, salt |-> Absent]) : e \in TransportErrors}
ProofSettlements(request) ==
    {Responded(b) : b \in ProofBodies(request)}
    \cup {Rejected(e, [json |-> FALSE, fields |-> {}, address_seed |-> Absent]) :
            e \in TransportErrors}

\* What the proof service can answer attempt a's request with.
ProofAnswers(a) ==
    IF proofSent[a] = <<>> THEN {} ELSE ProofSettlements(proofSent[a][Len(proofSent[a])])

(***************************************************************************)
(* Specifications.                                                         *)
(***************************************************************************)
\* The steps the wallet itself takes for attempt a, after the identity flow.
AfterLogin(a) ==
    \/ FetchSaltCall(a)
    \/ SaltConversionThrows(a)
    \/ \E k \in PipelineKeyClaimNames : CreatePartialZKSignatureCall(a, k)

\* The steps of the salt registry and of the proof service.
Services(a) ==
    \/ \E settled \in SaltSettlements : SaltSettles(a, settled)
    \/ \E settled \in ProofAnswers(a) : ProofSettles(a, settled)

\* Two attempts, interleaved, each through the whole pipeline.
Next ==
    \E a \in Attempts :
        \/ \E e \in CurrentEpochs, r \in PipelineEntropy : Prepare(a, e, r)
        \/ \E n \in NonceArgs(a) : ZkLoginCall(a, "google", n, Absent, Absent)
        \/ \E f \in ScenarioFragments : WebAuthFlowRedirect(a, f)
        \/ WebAuthFlowAbort(a)
        \/ AfterLogin(a)
        \/ Services(a)

Spec == Init /\ [][Next]_vars

\* One invocation of zkLogin, over every provider, argument and redirect.
FlowNext ==
    \/ \E e \in CurrentEpochs, r \in PipelineEntropy : Prepare(1, e, r)
    \/ \E p \in Providers, n \in NonceArgs(1), h \in LoginHints, q \in Prompts :
          ZkLoginCall(1, p, n, h, q)
    \/ \E f \in Fragments : WebAuthFlowRedirect(1, f)
    \/ WebAuthFlowAbort(1)

FlowSpec == Init /\ [][FlowNext]_vars

\* Two invocations each of prepareZKLogin and of zkLogin, interleaved in
\* every way.
RaceNext ==
    \E a \in Attempts :
        \/ \E e \in CurrentEpochs, r \in PipelineEntropy : Prepare(a, e, r)
        \/ \E n \in NonceArgs(a) : ZkLoginCall(a, "google", n, Absent, Absent)
        \/ \E f \in ScenarioFragments : WebAuthFlowRedirect(a, f)
        \/ WebAuthFlowAbort(a)

RaceSpec == Init /\ [][RaceNext]_vars

\* Two invocations of prepareZKLogin, over every epoch and every outcome of
\* randomBytes(16) with MaxEntropyTail bytes after the zero bytes.
EntropyNext ==
    \E a \in Attempts, e \in CurrentEpochs, r \in WideEntropy : Prepare(a, e, r)

EntropySpec == Init /\ [][EntropyNext]_vars

\* One attempt through the whole pipeline.  The wallet's own continuations
\* run once they can (the event loop is fair to them); nothing obliges the
\* user, the salt registry or the proof service to answer.
OneNext ==
    \/ \E e \in CurrentEpochs, r \in PipelineEntropy : Prepare(1, e, r)
    \/ \E n \in NonceArgs(1) : ZkLoginCall(1, "google", n, Absent, Absent)
    \/ \E f \in ScenarioFragments : WebAuthFlowRedirect(1, f)
    \/ WebAuthFlowAbort(1)
    \/ AfterLogin(1)
    \/ Services(1)

LiveSpec == Init /\ [][OneNext]_vars /\ WF_vars(AfterLogin(1))

\* The inputs of an invocation of createPartialZKSignature: the token, the
\* raw bytes of the ephemeral public key, the epoch and the random bytes of
\* the session, and the salt.
ProofInputs(tokens, keys, epochs, randoms, salts) ==
    [jwt : tokens, key : keys, currentEpoch : epochs, random16 : randoms, userSalt : salts]

\* The state in which attempt a, where given[a] is there, holds a session,
\* the token of its identity flow and the salt fetchSalt returned.
SaltReturnedWith(given) ==
    LET has(a) == IsSome(given[a])
        in(a) == Val(given[a])
        sessionOf(a) == PrepareZKLogin(in(a).currentEpoch, in(a).key, in(a).random16)
    IN  /\ pc = [a \in Attempts |-> IF has(a) THEN "SaltReturned" ELSE "Idle"]
        /\ epoch = [a \in Attempts |-> IF has(a) THEN Some(in(a).currentEpoch) ELSE Absent]
        /\ entropy = [a \in Attempts |-> IF has(a) THEN Some(in(a).random16) ELSE Absent]
        /\ claimArg = [a \in Attempts |-> Absent]
        /\ session = [a \in Attempts |-> IF has(a) THEN Some(sessionOf(a)) ELSE Absent]
        /\ call = [a \in Attempts |-> Absent]
        /\ jwt = [a \in Attempts |-> IF has(a) THEN Some(in(a).jwt) ELSE Absent]
        /\ salt = [a \in Attempts |->
                     IF has(a) THEN Some(Some(DecimalString(in(a).userSalt))) ELSE Absent]
        /\ proof = [a \in Attempts |-> Absent]
        /\ err = [a \in Attempts |-> "none"]
        /\ authSent = [a \in Attempts |->
                         IF has(a)
                         THEN <<AuthUrl("google",
                                        ZkLoginParams("google", sessionOf(a).nonce,
                                                      Absent, Absent))>>
                         ELSE <<>>]
        /\ saltSent = [a \in Attempts |->
                         IF has(a) THEN <<FetchSaltRequest(in(a).jwt)>> ELSE <<>>]
        /\ proofSent = [a \in Attempts |-> <<>>]
        /\ saltNet = [a \in Attempts |-> IF has(a) THEN "ok" ELSE "none"]
        /\ proofNet = [a \in Attempts |-> "none"]

\* One invocation of createPartialZKSignature, over every input.
ProofInit ==
    \E i \in ProofInputs(Tokens, KeySamples, CurrentEpochs, WideEntropy, 0..MaxSalt) :
        SaltReturnedWith([a \in Attempts |-> IF a = 1 THEN Some(i) ELSE Absent])

ProofNext ==
    \/ \E k \in KeyClaimNames : CreatePartialZKSignatureCall(1, k)
    \/ \E settled \in ProofAnswers(1) : ProofSettles(1, settled)

ProofSpec == ProofInit /\ [][ProofNext]_vars

\* Two invocations of createPartialZKSignature, whose inputs may be the same.
TwinInputs ==
    ProofInputs(Tokens, {<<1>>, <<255>>}, {0}, {RandomBytes(<<0>>)}, 0..MaxSalt)

TwinInit ==
    \E i, j \in TwinInputs :
        SaltReturnedWith([a \in Attempts |-> IF a = 1 THEN Some(i) ELSE Some(j)])

TwinNext ==
    \E a \in Attempts :
        \/ \E k \in KeyClaimNames : CreatePartialZKSignatureCall(a, k)
        \/ \E settled \in ProofAnswers(a) : ProofSettles(a, settled)

TwinSpec == TwinInit /\ [][TwinNext]_vars


(***************************************************************************)
(* Properties.                                                             *)
(***************************************************************************)
\* The redirect fragment read as a query string: an initial "?" is no part
\* of it; its parameters are the maximal runs without "&".
QueryOf(fragment) ==
    IF Len(fragment) > 0 /\ fragment[1] = "?" THEN Tail(fragment) ELSE fragment

IsParam(q, i, j) ==
    /\ 1 <= i /\ i <= j /\ j <= Len(q)
    /\ \A k \in i..j : q[k] # "&"
    /\ i = 1 \/ q[i - 1] = "&"
    /\ j = Len(q) \/ q[j + 1] = "&"

\* q[i..j] is a parameter named id_token; its value is q[i+2..j].
IsIdTokenParam(q, i, j) ==
    /\ IsParam(q, i, j)
    /\ q[i] = "id_token"
    /\ j = i \/ q[i + 1] = "="

IsFirstIdTokenParam(q, i, j) ==
    /\ IsIdTokenParam(q, i, j)
    /\ \A i2 \in 1..(i - 1) : \A j2 \in i2..Len(q) : ~IsIdTokenParam(q, i2, j2)

\* The fragment has no id_token parameter, or its id_token value is empty.
LacksToken(fragment) ==
    LET q == QueryOf(fragment)
    IN  \A i \in 1..Len(q) : \A j \in i..Len(q) :
            IsFirstIdTokenParam(q, i, j) => j < i + 2

\* v is the non-empty id_token value of the fragment.
IsTokenOf(fragment, v) ==
    LET q == QueryOf(fragment)
    IN  \E i \in 1..Len(q) : \E j \in i..Len(q) :
            /\ IsFirstIdTokenParam(q, i, j)
            /\ j >= i + 2
            /\ v = SubSeq(q, i + 2, j)

Redirected(a) == IsSome(call[a]) /\ Val(call[a]).settled = "redirect"

\* C1: whenever the interactive flow returned a redirect URL whose fragment
\* has no id_token parameter or an empty id_token value, zkLogin has thrown
\* (Failed) and returned no token; whenever zkLogin returned (Success), the
\* fragment has a non-empty id_token value and the token returned is it.
C1_MissingTokenFails ==
    \A a \in Attempts :
        Redirected(a) =>
            LET f == Val(call[a]).fragment
            IN  /\ LacksToken(f) => pc[a] = "Failed" /\ jwt[a] = Absent
                /\ pc[a] = "Success" => IsSome(jwt[a]) /\ IsTokenOf(f, Val(jwt[a]))

\* The scenario state=abc: a redirect without id_token has ended in Failed.
C1_Witness ==
    \E a \in Attempts :
        /\ Redirected(a)
        /\ Val(call[a]).fragment = <<"s", "=", "s">>
        /\ pc[a] = "Failed"
        /\ err[a] = "JWT is missing"

\* The identity flow of the attempt has failed: the user aborted it, or the
\* redirect lacks the token.
FlowFailed(c) ==
    /\ IsSome(c)
    /\ \/ Val(c).settled = "aborted"
       \/ Val(c).settled = "redirect" /\ LacksToken(Val(c).fragment)

\* C2: every step in which the identity flow fails leaves the attempt in
\* Failed; an attempt in Failed has sent no request to the salt registry and
\* none to the proof service, and it stays in Failed, so it never sends one.
C2_FailedFlowIssuesNoCalls ==
    [][\A a \in Attempts :
          /\ (pc[a] = "AuthorizationRequested" /\ FlowFailed(call'[a]))
                => pc'[a] = "Failed"
          /\ pc'[a] = "Failed" => saltSent'[a] = <<>> /\ proofSent'[a] = <<>>
          /\ pc[a] = "Failed" => pc'[a] = "Failed"]_vars

\* The user aborted the flow of one attempt while the other attempt, whose
\* flow succeeded, has sent its salt request.
C2_Witness ==
    \E a, b \in Attempts :
        /\ pc[a] = "Failed" /\ Val(call[a]).settled = "aborted"
        /\ saltSent[a] = <<>> /\ proofSent[a] = <<>>
        /\ saltSent[b] # <<>>

\* The values of the parameters of an authorization URL that are named name.
ParamValues(authUrl, name) ==
    LET hits == SelectSeq(authUrl.params, LAMBDA p : p[1] = name)
    IN  [i \in 1..Len(hits) |-> hits[i][2]]

\* The nonce bound to session s: derived from its key, maxEpoch and randomness.
BoundNonce(s) == GenerateNonce(s.ephemeralKeyPair, s.maxEpoch, s.randomness)

\* C3, as claimed: every authorization request carries, as its nonce, the
\* bound nonce of the attempt's session, whatever nonce the caller passed.
C3_AlwaysBoundNonce ==
    \A a \in Attempts : \A i \in 1..Len(authSent[a]) :
        ParamValues(authSent[a][i], "nonce") = <<BoundNonce(Val(session[a]))>>

\* C3, amended: the request carries exactly one nonce; it is the nonce the
\* caller passed when that is non-empty, and otherwise a fresh random string
\* that is the bound nonce of no session.
C3_NonceAsPassedOrRandom ==
    \A a \in Attempts :
        (IsSome(call[a]) /\ authSent[a] # <<>>) =>
            LET c == Val(call[a])
                sent == ParamValues(authSent[a][Len(authSent[a])], "nonce")
            IN  /\ Len(sent) = 1
                /\ ~Falsy(c.nonce) => sent[1] = Val(c.nonce)
                /\ Falsy(c.nonce) =>
                      /\ sent[1] = RandomNonce(a)
                      /\ \A b \in Attempts :
                            IsSome(session[b]) => sent[1] # BoundNonce(Val(session[b]))

\* A request was sent by a caller that passed an empty nonce.
C3_Witness ==
    \E a \in Attempts :
        /\ pc[a] = "AuthorizationRequested"
        /\ Val(call[a]).nonce = Some(<<>>)
        /\ ParamValues(authSent[a][1], "nonce") = <<RandomNonce(a)>>

\* C4: an attempt is completed only when the salt exchange and the proof
\* exchange both succeeded and both results are there; when either exchange
\* failed, the attempt has failed with that exchange's error and holds no
\* partial signature; a failed attempt always carries an error and no
\* partial signature.
C4_CompletedOnlyWhenBothSucceed ==
    \A a \in Attempts :
        /\ pc[a] = "Completed" =>
              /\ saltNet[a] = "ok" /\ proofNet[a] = "ok"
              /\ IsSome(salt[a]) /\ IsSome(proof[a])
        /\ saltNet[a] \in TransportErrors =>
              /\ pc[a] = "AttemptFailed" /\ err[a] = saltNet[a]
              /\ proof[a] = Absent /\ proofSent[a] = <<>>
        /\ proofNet[a] \in TransportErrors =>
              /\ pc[a] = "AttemptFailed" /\ err[a] = proofNet[a]
              /\ proof[a] = Absent
        /\ pc[a] = "AttemptFailed" => err[a] # "none" /\ proof[a] = Absent

\* The salt call returned the salt "1" and the proof call timed out.
C4_Witness ==
    \E a \in Attempts :
        /\ saltNet[a] = "ok" /\ salt[a] = Some(Some(<<"1">>))
        /\ proofNet[a] = "TimeoutError"
        /\ pc[a] = "AttemptFailed" /\ err[a] = "TimeoutError"

\* C5, as claimed: while the salt call is in flight, the request of
\* createPartialZKSignature can be formed and issued.
C5_ProofIssuableBeforeSalt ==
    \A a \in Attempts :
        pc[a] = "SaltRequested" =>
            ENABLED (\E k \in KeyClaimNames : CreatePartialZKSignatureCall(a, k))

\* C5, amended: the proof request depends on the salt: every proof request
\* was sent after the salt exchange had ended well, and its subject_pin is
\* the decimal string of the salt fetchSalt returned.
C5_ProofRequestCarriesSalt ==
    \A a \in Attempts : \A i \in 1..Len(proofSent[a]) :
        /\ saltNet[a] = "ok"
        /\ IsSome(salt[a]) /\ IsSome(Val(salt[a]))
        /\ proofSent[a][i].subject_pin = DecimalString(DecimalValue(Val(Val(salt[a]))))

\* A proof request in flight that carries the salt "1".
C5_Witness ==
    \E a \in Attempts :
        /\ pc[a] = "ProofRequested"
        /\ salt[a] = Some(Some(<<"1">>))
        /\ proofSent[a][1].subject_pin = <<"1">>

\* C6, as claimed: a salt call or a proof call in flight does not stay
\* pending for ever: it ends, with a time-out when the service never answers.
C6_CallsEventuallySettle ==
    /\ (pc[1] = "SaltRequested") ~> (pc[1] # "SaltRequested")
    /\ (pc[1] = "ProofRequested") ~> (pc[1] # "ProofRequested")

\* C7, as claimed: fetchSalt returns a value only when the response has a
\* well-formed salt field (a decimal integer string).
C7_ReturnedSaltIsWellFormed ==
    \A a \in Attempts :
        IsSome(salt[a]) =>
            IsSome(Val(salt[a])) /\ IsDecimalString(Val(Val(salt[a])))

\* C8, as claimed: createPartialZKSignature returns a value only when the
\* response has every field of a PartialZkSignature.
C8_ReturnedProofHasAllFields ==
    \A a \in Attempts :
        IsSome(proof[a]) =>
            \A f \in {"proof_points", "address_seed", "claims", "header_base64"} :
                f \in Val(proof[a]).fields

\* The nonce of an authorization request.
SentNonce(authUrl) == ParamValues(authUrl, "nonce")

\* C9: every attempt sends at most one authorization request, and a token is
\* held only by an attempt that sent one; no nonce is carried by two
\* authorization requests, of the same attempt or of two attempts.
C9_NonceSingleUse ==
    /\ \A a \in Attempts :
          /\ Len(authSent[a]) <= 1
          /\ IsSome(jwt[a]) => Len(authSent[a]) = 1
    /\ \A a, b \in Attempts :
          \A i \in 1..Len(authSent[a]) : \A j \in 1..Len(authSent[b]) :
              SentNonce(authSent[a][i]) = SentNonce(authSent[b][j])
                  => a = b /\ i = j

\* Two attempts with the same epoch and the same randomness have both sent
\* the nonce of their session and both hold a token.
C9_Witness ==
    \E a, b \in Attempts :
        /\ a # b
        /\ IsSome(jwt[a]) /\ IsSome(jwt[b])
        /\ Val(session[a]).maxEpoch = Val(session[b]).maxEpoch
        /\ Val(session[a]).randomness = Val(session[b]).randomness
        /\ SentNonce(authSent[a][1]) = <<Val(session[a]).nonce>>
        /\ SentNonce(authSent[b][1]) = <<Val(session[b]).nonce>>

\* C10: the session prepareZKLogin(currentEpoch) returned has
\* maxEpoch = currentEpoch + 2.
C10_MaxEpochIsCurrentPlusTwo ==
    \A a \in Attempts :
        IsSome(session[a]) =>
            /\ IsSome(epoch[a])
            /\ Val(session[a]).maxEpoch = Val(epoch[a]) + 2

\* A session prepared at epoch 1 has maxEpoch 3.
C10_Witness ==
    \E a \in Attempts :
        /\ IsSome(session[a])
        /\ epoch[a] = Some(1)
        /\ Val(session[a]).maxEpoch = 3

\* The sessions prepareZKLogin has returned.
Sessions == {Val(session[a]) : a \in {b \in Attempts : IsSome(session[b])}}

\* C11: in every session prepareZKLogin returns, the nonce is the nonce
\* function applied to exactly that session's ephemeral public key, maxEpoch
\* and randomness; sessions that agree on the three agree on the nonce.
C11_NonceBindsItsSession ==
    /\ \A s \in Sessions :
          s.nonce = GenerateNonce(s.ephemeralKeyPair, s.maxEpoch, s.randomness)
    /\ \A s, t \in Sessions :
          (/\ s.ephemeralKeyPair = t.ephemeralKeyPair
           /\ s.maxEpoch = t.maxEpoch
           /\ s.randomness = t.randomness) => s.nonce = t.nonce

\* Two sessions of different epochs and randomness, each with its own key.
C11_Witness ==
    /\ IsSome(session[1]) /\ IsSome(session[2])
    /\ Val(session[1]).maxEpoch # Val(session[2]).maxEpoch
    /\ Val(session[1]).randomness # Val(session[2]).randomness
    /\ Val(session[1]).nonce # Val(session[2]).nonce

\* Decoders of an unsigned integer to big-endian bytes: to the shortest byte
\* sequence, and to a sequence of a given width, zero bytes in front.
RECURSIVE MinimalBytes(_)
MinimalBytes(n) ==
    IF n = 0 THEN <<>> ELSE Append(MinimalBytes(n \div 256), n % 256)

RECURSIVE ToBufferBE(_, _)
ToBufferBE(n, width) ==
    IF width = 0 THEN <<>> ELSE Append(ToBufferBE(n \div 256, width - 1), n % 256)

\* The requests sent to the proof service, each with the attempt's inputs.
ProofCalls == {a \in Attempts : proofSent[a] # <<>>}
ProofRequestOf(a) == proofSent[a][1]
KeyBytesOf(a) == ToSuiBytes(Val(session[a]).ephemeralKeyPair)

\* Canonical decimal strings: digits only, no zero in front but in "0".
IsCanonicalDecimal(s) ==
    /\ IsDecimalString(s)
    /\ Len(s) > 1 => s[1] # "0"

\* C12 as stated: eph_public_key is the decimal string of the big-endian
\* integer of the key's byte encoding, and decoding that string to bytes gives
\* back the encoding, zero bytes in front included.
C12_KeyEncodingRoundTrips ==
    \A a \in ProofCalls :
        /\ IsCanonicalDecimal(ProofRequestOf(a).eph_public_key)
        /\ MinimalBytes(DecimalValue(ProofRequestOf(a).eph_public_key)) = KeyBytesOf(a)

\* C12, amended: eph_public_key is the canonical decimal string of the
\* big-endian integer of the key's byte encoding; decoding it to as many
\* bytes as the encoding has gives back the encoding, and decoding it without
\* that length gives the encoding less its leading zero bytes.
C12_KeyEncodingRoundTripsAtItsLength ==
    \A a \in ProofCalls :
        LET n == DecimalValue(ProofRequestOf(a).eph_public_key)
            bytes == KeyBytesOf(a)
        IN  /\ IsCanonicalDecimal(ProofRequestOf(a).eph_public_key)
            /\ ToBufferBE(n, Len(bytes)) = bytes
            /\ Zeros(Len(bytes) - Len(MinimalBytes(n))) \o MinimalBytes(n) = bytes

\* A request for a key whose raw bytes begin with a zero byte.
C12_Witness ==
    /\ 1 \in ProofCalls
    /\ Val(session[1]).ephemeralKeyPair = <<0, 255>>
    /\ ProofRequestOf(1).eph_public_key = <<"2", "5", "5">>

\* Two invocations of createPartialZKSignature were given the same inputs.
SameWalletInputs(a, b) ==
    /\ jwt[a] = jwt[b]
    /\ Val(session[a]).ephemeralKeyPair = Val(session[b]).ephemeralKeyPair
    /\ Val(session[a]).maxEpoch = Val(session[b]).maxEpoch
    /\ Val(session[a]).randomness = Val(session[b]).randomness
    /\ salt[a] = salt[b]
    /\ claimArg[a] = claimArg[b]

\* The invocation returned a signature that has an address_seed.
ReturnedSeed(a) ==
    pc[a] = "Completed" /\ IsSome(proof[a]) /\ IsSome(Val(proof[a]).address_seed)

\* C13: two independent invocations of createPartialZKSignature with
\* identical inputs send identical requests, and, the proof service deriving
\* the address seed from the request alone, return the same address_seed.
C13_SameInputsSameRequestAndSeed ==
    \A a, b \in ProofCalls :
        SameWalletInputs(a, b) =>
            /\ proofSent[a] = proofSent[b]
            /\ (ReturnedSeed(a) /\ ReturnedSeed(b)) =>
                  Val(proof[a]).address_seed = Val(proof[b]).address_seed

\* Both invocations were given the same inputs and both returned a seed.
C13_Witness ==
    /\ ProofCalls = Attempts
    /\ SameWalletInputs(1, 2)
    /\ claimArg[1] = Some("email")
    /\ ReturnedSeed(1) /\ ReturnedSeed(2)

\* The attempt has invoked fetchSalt; it has invoked createPartialZKSignature.
SaltInvoked(a) ==
    pc[a] \in {"SaltRequested", "SaltReturned", "ProofRequested", "Completed", "AttemptFailed"}
ProofInvoked(a) ==
    \/ pc[a] \in {"ProofRequested", "Completed"}
    \/ pc[a] = "AttemptFailed" /\ proofNet[a] # "none"

\* C14: an invocation of fetchSalt or of createPartialZKSignature performs
\* exactly one request/response exchange: one request is sent when it is
\* invoked, and none is added when the exchange fails or after it has ended.
C14_OneExchangePerInvocation ==
    \A a \in Attempts :
        /\ Len(saltSent[a]) = (IF SaltInvoked(a) THEN 1 ELSE 0)
        /\ Len(proofSent[a]) = (IF ProofInvoked(a) THEN 1 ELSE 0)
        /\ saltNet[a] # "none" => pc[a] # "SaltRequested"
        /\ proofNet[a] # "none" => pc[a] # "ProofRequested"

\* One attempt ended on a rejected salt exchange, the other on a rejected
\* proof exchange; each had sent its request once.
C14_Witness ==
    /\ pc[1] = "AttemptFailed" /\ saltNet[1] = "NetworkError" /\ Len(saltSent[1]) = 1
    /\ pc[2] = "AttemptFailed" /\ proofNet[2] = "TimeoutError" /\ Len(proofSent[2]) = 1

\* Everything the model holds for attempt a.
AttemptState(a) ==
    <<pc[a], epoch[a], entropy[a], claimArg[a], session[a], call[a], jwt[a],
      salt[a], proof[a], err[a], authSent[a], saltSent[a], proofSent[a],
      saltNet[a], proofNet[a]>>

\* The steps of attempt a in prepareZKLogin and zkLogin.
RaceStep(a) ==
    \/ \E e \in CurrentEpochs, r \in PipelineEntropy : Prepare(a, e, r)
    \/ \E n \in NonceArgs(a) : ZkLoginCall(a, "google", n, Absent, Absent)
    \/ \E f \in ScenarioFragments : WebAuthFlowRedirect(a, f)
    \/ WebAuthFlowAbort(a)

\* Attempt a has a step to take: its session is to be prepared, its identity
\* flow to be started, or its flow is awaited.
InFlight(a) == pc[a] \in {"Idle", "Prepared", "AuthorizationRequested"}

\* A step changes what one attempt holds and leaves the other's alone.
StepIsLocal ==
    \A a, b \in Attempts :
        (a # b /\ AttemptState(a)' # AttemptState(a)) => AttemptState(b)' = AttemptState(b)

AuthorizationRequested(a) ==
    /\ IsSome(call[a])
    /\ authSent[a] = <<Val(call[a]).authUrl>>
RedirectReceived(a) ==
    AuthorizationRequested(a) /\ Val(call[a]).settled = "redirect"
TokenExtracted(a) ==
    /\ RedirectReceived(a)
    /\ IsSome(jwt[a])
    /\ ExtractJwt(UrlHash(Val(call[a]).fragment)) = jwt[a]
    /\ IsTokenOf(Val(call[a]).fragment, Val(jwt[a]))

ZkLoginStages ==
    \A a \in Attempts :
        /\ pc[a] \in {"Idle", "Prepared"} => authSent[a] = <<>> /\ jwt[a] = Absent
        /\ pc[a] = "AuthorizationRequested" =>
              /\ AuthorizationRequested(a)
              /\ Val(call[a]).settled = "pending"
              /\ jwt[a] = Absent
        /\ pc[a] = "Success" => TokenExtracted(a)
        /\ pc[a] = "Failed" => AuthorizationRequested(a) /\ jwt[a] = Absent

ZkLoginOrder ==
    \A a \in Attempts :
        /\ (pc[a] # "AuthorizationRequested" /\ pc'[a] = "AuthorizationRequested") =>
              pc[a] = "Prepared"
        /\ (pc[a] # "Success" /\ pc'[a] = "Success") =>
              pc[a] = "AuthorizationRequested" /\ authSent'[a] = authSent[a]
        /\ (pc[a] # "Failed" /\ pc'[a] = "Failed") =>
              pc[a] = "AuthorizationRequested" /\ authSent'[a] = authSent[a]
        /\ pc[a] \in {"Success", "Failed"} => pc'[a] = pc[a]

\* C16: every invocation of zkLogin goes through its stages in order: it
\* builds the authorization URL, launches the interactive flow exactly once
\* with it, parses the fragment of the redirect URL it received and extracts
\* the token.  Success is reached only from AuthorizationRequested, with the
\* redirect received and the token extracted, and the token returned is the
\* id_token value of the redirect fragment of the same flow.
C16_ZkLoginStagesInOrder ==
    /\ []ZkLoginStages
    /\ [][ZkLoginOrder]_vars

\* zkLogin, launched once for twitch, returned the token of the fragment it
\* received.
C16_Witness ==
    /\ pc[1] = "Success"
    /\ Val(call[1]).provider = "twitch"
    /\ Val(call[1]).fragment = <<"id_token", "=", "s">>
    /\ jwt[1] = Some(<<"s">>)
    /\ Len(authSent[1]) = 1

\* The zkLogin invocations made so far.
ZkLoginCalls == {a \in Attempts : IsSome(call[a])}

\* The names of the parameters an authorization URL may carry.
RequiredParamNames == {"client_id", "response_type", "redirect_uri", "scope", "nonce"}
OptionalParamNames == {"login_hint", "prompt"}

\* C17: the authorization request goes to the selected provider's URL with
\* that provider's client_id, response_type "id_token", the redirect_uri,
\* scope "openid email profile" and the nonce, each once; it has login_hint
\* exactly when a non-empty loginHint was passed and prompt exactly when a
\* prompt was passed, each with the value passed; and it has no other
\* parameter, so that loginHint and prompt bear on none of the required ones.
C17_AuthorizationRequestParameters ==
    \A a \in ZkLoginCalls :
        LET c == Val(call[a])
            u == c.authUrl
            hinted == IsSome(c.loginHint) /\ Val(c.loginHint) # <<>>
        IN  /\ u.url = zkProviderDataMap[c.provider].url
            /\ ParamValues(u, "client_id") = <<zkProviderDataMap[c.provider].clientID>>
            /\ ParamValues(u, "response_type") = << <<"id_token">> >>
            /\ ParamValues(u, "redirect_uri") = <<RedirectURL>>
            /\ ParamValues(u, "scope") = << <<"openid email profile">> >>
            /\ ParamValues(u, "nonce") =
                  <<IF IsSome(c.nonce) /\ Val(c.nonce) # <<>>
                    THEN Val(c.nonce) ELSE RandomNonce(a)>>
            /\ ParamValues(u, "login_hint") = (IF hinted THEN <<Val(c.loginHint)>> ELSE <<>>)
            /\ ParamValues(u, "prompt") = (IF IsSome(c.prompt) THEN <<Val(c.prompt)>> ELSE <<>>)
            /\ \A i \in 1..Len(u.params) :
                  u.params[i][1] \in RequiredParamNames \cup OptionalParamNames
            /\ \A i \in 1..Cardinality(RequiredParamNames) :
                  u.params[i][1] \in RequiredParamNames

\* A request for twitch with the session's nonce, an empty loginHint and a
\* prompt: it has prompt and no login_hint.
C17_Witness ==
    /\ 1 \in ZkLoginCalls
    /\ Val(call[1]).provider = "twitch"
    /\ Val(call[1]).nonce = Some(Val(session[1]).nonce)
    /\ Val(call[1]).loginHint = Some(<<>>)
    /\ Val(call[1]).prompt = Some(<<"consent">>)
    /\ Len(Val(call[1]).authUrl.params) = 6

\* s is the canonical decimal string of n.
IsDecimalOf(s, n) == IsCanonicalDecimal(s) /\ DecimalValue(s) = n

\* C18: the proof request carries the inputs unchanged: jwt is the given
\* token, max_epoch the given maxEpoch, jwt_randomness the decimal string of
\* the given randomness, subject_pin the decimal string of the given salt, and
\* key_claim_name the given claim key name, "sub" when none was given; it is
\* always one of "sub" and "email".
C18_ProofRequestCarriesInputs ==
    \A a \in ProofCalls :
        LET r == ProofRequestOf(a)
            s == Val(session[a])
        IN  /\ DOMAIN r = {"jwt", "eph_public_key", "max_epoch", "jwt_randomness",
                           "subject_pin", "key_claim_name"}
            /\ r.jwt = Val(jwt[a])
            /\ r.max_epoch = s.maxEpoch
            /\ IsDecimalOf(r.jwt_randomness, s.randomness)
            /\ IsDecimalOf(r.subject_pin, Val(UserSaltOf(SaltHeld(a))))
            /\ r.key_claim_name = (IF claimArg[a] = Absent THEN "sub" ELSE Val(claimArg[a]))
            /\ r.key_claim_name \in {"sub", "email"}

\* A request made without a claim key name, for a randomness of two non-zero
\* bytes and a salt of 1.
C18_Witness ==
    /\ 1 \in ProofCalls
    /\ claimArg[1] = Absent
    /\ ProofRequestOf(1).key_claim_name = "sub"
    /\ Val(session[1]).randomness = 65535
    /\ ProofRequestOf(1).jwt_randomness = <<"6", "5", "5", "3", "5">>
    /\ ProofRequestOf(1).subject_pin = <<"1">>
    /\ ProofRequestOf(1).max_epoch = 3

\* n with its width lowest bytes shifted out: 0 exactly when n < 256^width.
RECURSIVE ShiftedOut(_, _)
ShiftedOut(n, width) ==
    IF width = 0 THEN n ELSE ShiftedOut(n \div 256, width - 1)

\* C19: the randomness of a session is the big-endian unsigned integer of the
\* 16 random bytes drawn for it, hence 0 <= randomness < 2^128 (256^16), and
\* it is determined by those bytes alone, whatever the ephemeral key and the
\* currentEpoch are.
C19_RandomnessIsSixteenBytes ==
    \A a \in Attempts :
        IsSome(session[a]) =>
            LET r == Val(session[a]).randomness
                drawn == Val(entropy[a])
            IN  /\ IsSome(entropy[a])
                /\ Len(drawn) = 16
                /\ \A i \in 1..Len(drawn) : drawn[i] \in 0..255
                /\ r >= 0
                /\ ShiftedOut(r, 16) = 0
                /\ ToBufferBE(r, 16) = drawn

\* Two sessions of different epochs and keys for which the same bytes were
\* drawn, and so with the same randomness.
C19_Witness ==
    /\ IsSome(session[1]) /\ IsSome(session[2])
    /\ epoch[1] # epoch[2]
    /\ Val(session[1]).ephemeralKeyPair # Val(session[2]).ephemeralKeyPair
    /\ entropy[1] = Some(RandomBytes(<<255, 255>>))
    /\ entropy[2] = entropy[1]
    /\ Val(session[1]).randomness = 65535
    /\ Val(session[2]).randomness = 65535
=============================================================================
